---------------------------- MODULE Spec2Model ----------------------------
(***************************************************************************)
(* Telematics dashboard (src/streamlit_app.py): the cached load_data       *)
(* pipeline (fetch, sort, parse, coerce, lowercase, drop) and the script   *)
(* that calls it, checks for empty data, offers "Refresh Now" and renders. *)
(*                                                                         *)
(* Three specifications share the variables:                               *)
(*   Spec       load_data on an arbitrary response of the store, then the  *)
(*              same normalisation applied to its own output;              *)
(*   SpecStore  load_data against a table with a timestamp-typed column,   *)
(*              queried in descending order with a row cap;                *)
(*   SpecDash   the script run by run, with the st.cache_data entry, its   *)
(*              TTL, the refresh button and a fetch that may fail.         *)
(***************************************************************************)
EXTENDS Integers, Sequences, FiniteSets, Bags, TLC

VARIABLES
    pc,           \* position of the run (of load_data, or of the script)
    response,     \* outcome of .execute(), lines 15-19
    df,           \* the frame load_data returned, line 35 (script: df, line 42)
    df2,          \* the frame lines 22-35 make of df when applied once more
    store,        \* rows of the remote table "telematics", line 15
    cache,        \* the st.cache_data entry of load_data, line 9
    clicked,      \* whether "Refresh Now" (line 52) triggered this script run
    hit,          \* whether line 42 was served from the cache in this run
    cleared,      \* whether st.cache_data.clear() (line 53) ran in this run
    filtered_df   \* the frame rendered, line 56

vars == <<pc, response, df, df2, store, cache, clicked, hit, cleared, filtered_df>>

----------------------------------------------------------------------------
(* Bounds of the exploration.                                              *)

\* Longest response explored by Spec.
MaxRows == 2

\* Row cap of the query, .limit(500) at line 18, scaled down so that
\* SpecStore explores tables of up to Limit + 2 rows (more rows than the cap).
Limit == 2

\* Longest response explored by SpecDash.
MaxDashRows == 2

\* Seconds st.cache_data keeps an entry (ttl=10, line 9).
TTL == 10

----------------------------------------------------------------------------
(* Characters and strings.  A string is a sequence of one-character        *)
(* strings; Python compares strings by code point, character by character. *)

Digits == <<"0", "1", "2", "3", "4", "5", "6", "7", "8", "9">>
Upper == <<"A", "B", "C", "D", "E", "F", "G", "H", "I", "J", "K", "L", "M",
           "N", "O", "P", "Q", "R", "S", "T", "U", "V", "W", "X", "Y", "Z">>
Lower == <<"a", "b", "c", "d", "e", "f", "g", "h", "i", "j", "k", "l", "m",
           "n", "o", "p", "q", "r", "s", "t", "u", "v", "w", "x", "y", "z">>

Range(s) == {s[i] : i \in 1..Len(s)}
IndexOf(s, c) == CHOOSE i \in 1..Len(s) : s[i] = c

IsDigit(c) == c \in Range(Digits)
DigitVal(c) == IndexOf(Digits, c) - 1
DigitChar(n) == Digits[n + 1]

\* ord(c) for the characters that occur.
Ord(c) ==
    IF c \in Range(Digits) THEN 47 + IndexOf(Digits, c)
    ELSE IF c \in Range(Upper) THEN 64 + IndexOf(Upper, c)
    ELSE IF c \in Range(Lower) THEN 96 + IndexOf(Lower, c)
    ELSE CASE c = " " -> 32
           [] c = "+" -> 43
           [] c = "-" -> 45
           [] c = "." -> 46
           [] c = ":" -> 58

\* a < b for Python str: the first differing character decides, a proper
\* prefix is smaller.
RECURSIVE StrLess(_, _)
StrLess(a, b) ==
    IF b = <<>> THEN FALSE
    ELSE IF a = <<>> THEN TRUE
    ELSE IF Head(a) = Head(b) THEN StrLess(Tail(a), Tail(b))
    ELSE Ord(Head(a)) < Ord(Head(b))

\* str.lower(), character by character.
LowerChar(c) == IF c \in Range(Upper) THEN Lower[IndexOf(Upper, c)] ELSE c
StrLower(s) == [i \in 1..Len(s) |-> LowerChar(s[i])]

\* str(n) for a non-negative integer.
RECURSIVE DecStr(_)
DecStr(n) == IF n < 10 THEN <<DigitChar(n)>>
             ELSE Append(DecStr(n \div 10), DigitChar(n % 10))

\* The value of a string of digits.
RECURSIVE DecVal(_)
DecVal(s) == IF s = <<>> THEN 0
             ELSE 10 * DecVal(SubSeq(s, 1, Len(s) - 1)) + DigitVal(s[Len(s)])

----------------------------------------------------------------------------
(* Cell values.  k is the kind: "null" (JSON null, Python None), "nan"     *)
(* (the pandas missing marker NaN / NaT), "num" (a number n), "str" (a     *)
(* string s), "ts" (a parsed Timestamp, n tenths of a second after         *)
(* 2024-01-01T00:00:00Z).                                                  *)

Val(k, n, s) == [k |-> k, n |-> n, s |-> s]
Null == Val("null", 0, <<>>)
NaN == Val("nan", 0, <<>>)
Num(n) == Val("num", n, <<>>)
Str(s) == Val("str", 0, s)
Ts(n) == Val("ts", n, <<>>)

\* pandas isna(): None and NaN / NaT.
IsNA(v) == v.k \in {"null", "nan"}

(* Timestamp strings.  Every timestamp of the model lies in the ten        *)
(* seconds after 2024-01-01T00:00:00, so the strings share the prefix      *)
(* "2024-01-01T00:00:0" and a string of the model is what follows it: the  *)
(* seconds digit, an optional fraction "." digit, and the UTC designator   *)
(* "Z" or "+00:00".  A shared prefix does not change a comparison.         *)
UtcDesignators == {<<"Z">>, <<"+", "0", "0", ":", "0", "0">>}

IsoZone(t) == t \in UtcDesignators

IsoValid(s) ==
    /\ Len(s) >= 2
    /\ IsDigit(s[1])
    /\ \/ IsoZone(Tail(s))
       \/ /\ Len(s) >= 4
          /\ s[2] = "."
          /\ IsDigit(s[3])
          /\ IsoZone(SubSeq(s, 4, Len(s)))

\* The instant a valid string denotes, in tenths of a second.
IsoInstant(s) ==
    10 * DigitVal(s[1]) + (IF s[2] = "." THEN DigitVal(s[3]) ELSE 0)

----------------------------------------------------------------------------
(* The columns load_data touches.                                          *)

numeric_cols == {"latitude", "longitude", "speed", "fuel_level", "engine_temp",
                 "accelerometer_x", "accelerometer_y", "accelerometer_z",
                 "head_direction", "head_tilt", "eye_closed_duration"}
categorical_cols == {"driver_state", "vehicle_health", "vehicle_type"}
required_cols == {"timestamp", "latitude", "longitude"}
Cols == {"timestamp"} \cup numeric_cols \cup categorical_cols

\* pd.to_datetime(x, format='ISO8601', errors='coerce') on one cell.
to_datetime(v) ==
    CASE v.k = "str" -> IF IsoValid(v.s) THEN Ts(IsoInstant(v.s)) ELSE NaN
      [] v.k = "null" -> NaN
      [] v.k = "nan" -> NaN
      [] v.k = "ts" -> v

\* to_numeric with the failures filled with 0 (as .fillna(0) would).
to_numeric_zero(v) ==
    CASE v.k = "num" -> v
      [] v.k = "str" -> IF v.s # <<>> /\ \A i \in 1..Len(v.s) : IsDigit(v.s[i])
                        THEN Num(DecVal(v.s)) ELSE Num(0)
      [] v.k = "null" -> Num(0)
      [] v.k = "nan" -> Num(0)

\* pd.to_numeric(x, errors='coerce') on one cell.
to_numeric(v) ==
    CASE v.k = "num" -> v
      [] v.k = "str" -> IF v.s # <<>> /\ \A i \in 1..Len(v.s) : IsDigit(v.s[i])
                        THEN Num(DecVal(v.s)) ELSE NaN
      [] v.k = "null" -> NaN
      [] v.k = "nan" -> NaN

\* x.astype(str) on one cell of an object column: str(None) is "None",
\* str(nan) is "nan".
astype_str(v) ==
    CASE v.k = "str" -> v
      [] v.k = "null" -> Str(<<"N", "o", "n", "e">>)
      [] v.k = "nan" -> Str(<<"n", "a", "n">>)
      [] v.k = "num" -> Str(DecStr(v.n))

\* x.astype(str).str.lower() on one cell.
lower_cell(v) == Str(StrLower(astype_str(v).s))

\* Lines 25-33 on one row.
CleanRow(r) ==
    [c \in Cols |->
        IF c = "timestamp" THEN to_datetime(r[c])
        ELSE IF c \in numeric_cols THEN to_numeric(r[c])
        ELSE lower_cell(r[c])]

----------------------------------------------------------------------------
(* Frames.  A frame is a sequence of [idx, row]: idx is the row's index    *)
(* label, which sort_values and dropna carry along.                        *)

\* pd.DataFrame(response.data): a RangeIndex 0..n-1 over the rows.
DataFrame(data) == [i \in 1..Len(data) |-> [idx |-> i - 1, row |-> data[i]]]

\* The orders in which the positions in I can be arranged.
RECURSIVE Arrangements(_)
Arrangements(I) ==
    IF I = {} THEN {<<>>}
    ELSE UNION {{Append(p, x) : p \in Arrangements(I \ {x})} : x \in I}

Perms(n) == Arrangements(1..n)

\* a <= b for two non-missing sort keys of one column: strings by code
\* point, Timestamps by instant.
KeyLeq(a, b) ==
    IF a.k = "str" /\ b.k = "str" THEN ~StrLess(b.s, a.s)
    ELSE a.n <= b.n

\* sort_values left out: the frame stays in fetch order.
sort_values_skipped(f) == {f}

\* df.sort_values("timestamp"): kind defaults to 'quicksort', which pandas
\* documents as not stable (numpy's introsort partitions frames of more than
\* 16 rows and moves equal keys past each other), so rows with equal keys
\* may come out in any order; rows with a missing key go last
\* (na_position='last') in their original order.
sort_values(f) ==
    LET key(i) == f[i].row["timestamp"]
        ok(p) == \A a, b \in 1..Len(f) : a < b =>
                    /\ IsNA(key(p[a])) => (IsNA(key(p[b])) /\ p[a] < p[b])
                    /\ (~IsNA(key(p[a])) /\ ~IsNA(key(p[b]))) =>
                           KeyLeq(key(p[a]), key(p[b]))
    IN {[k \in 1..Len(f) |-> f[p[k]]] : p \in {q \in Perms(Len(f)) : ok(q)}}

\* Lines 25-33 on the frame.
clean(f) == [i \in 1..Len(f) |-> [idx |-> f[i].idx, row |-> CleanRow(f[i].row)]]

Keep(e) == \A c \in required_cols : ~IsNA(e.row[c])

\* dropna with 'latitude' left out of the subset.
dropna_no_latitude(f) ==
    LET keep(e) == \A c \in required_cols \ {"latitude"} : ~IsNA(e.row[c])
    IN SelectSeq(f, keep)

\* df.dropna(subset=['timestamp', 'latitude', 'longitude']), line 34.
dropna(f) == SelectSeq(f, Keep)

\* Lines 22-35 on a frame that has its columns: every frame the sort may
\* produce, cleaned and filtered.
normalize(f) == {dropna(clean(g)) : g \in sort_values(f)}

\* Lines 21-35 on the rows .execute() returned.  A DataFrame built from an
\* empty list has no columns, so sort_values("timestamp") raises KeyError.
Raised == [raised |-> TRUE, df |-> <<>>]
Returned(f) == [raised |-> FALSE, df |-> f]

load_data(data) ==
    IF data = <<>> THEN {Raised}
    ELSE {Returned(f) : f \in normalize(DataFrame(data))}

----------------------------------------------------------------------------
(* Responses explored by Spec.                                             *)

S(str) == Str(str)

\* A fetched row: timestamp ts, coordinates lat and lon, every other
\* numeric column m, every categorical column c.
MkRow(ts, lat, lon, m, c) ==
    [col \in Cols |->
        IF col = "timestamp" THEN ts
        ELSE IF col = "latitude" THEN lat
        ELSE IF col = "longitude" THEN lon
        ELSE IF col \in numeric_cols THEN m
        ELSE c]

TsIn == {Null,
         S(<<"0", "Z">>), S(<<"0", ".", "5", "Z">>), S(<<"1", "Z">>),
         S(<<"n", "o", "w">>)}

Profiles ==
    {<<Num(1), Num(2), Num(3), S(<<"D", "r", "o", "w", "s", "y">>)>>,
     <<Null, Num(2), Num(3), S(<<"a", "l", "e", "r", "t">>)>>,
     <<Num(1), S(<<"e", "a", "s", "t">>), Num(0), S(<<"O", "K">>)>>,
     <<S(<<"1", "2">>), Num(2), S(<<"f", "a", "s", "t">>), Null>>,
     <<Num(1), Num(2), Null, Num(7)>>}

InputRows == {MkRow(ts, p[1], p[2], p[3], p[4]) : ts \in TsIn, p \in Profiles}

SeqsUpTo(S_, n) == UNION {[1..k -> S_] : k \in 0..n}

Responses == SeqsUpTo(InputRows, MaxRows)

EmptyCache == [has |-> FALSE, val |-> <<>>, age |-> 0]
NoResponse == [st |-> "none", data |-> <<>>]
Fetched(data) == [st |-> "ok", data |-> data]
Failed == [st |-> "fail", data |-> <<>>]

Init ==
    /\ pc = "start"
    /\ response = NoResponse
    /\ df = <<>>
    /\ df2 = <<>>
    /\ store = <<>>
    /\ cache = EmptyCache
    /\ clicked = FALSE
    /\ hit = FALSE
    /\ cleared = FALSE
    /\ filtered_df = <<>>

\* load_data, lines 10-35, on the rows the store answered with.
LoadData ==
    /\ pc = "start"
    /\ \E data \in Responses :
         /\ response' = Fetched(data)
         /\ \E out \in load_data(data) :
              /\ df' = out.df
              /\ pc' = IF out.raised THEN "raised" ELSE "returned"
    /\ UNCHANGED <<df2, store, cache, clicked, hit, cleared, filtered_df>>

\* Lines 22-35 applied to the frame load_data returned.
Renormalize ==
    /\ pc = "returned"
    /\ \E f \in normalize(df) : df2' = f
    /\ pc' = "renormalized"
    /\ UNCHANGED <<response, df, store, cache, clicked, hit, cleared, filtered_df>>

Next == LoadData \/ Renormalize

Spec == Init /\ [][Next]_vars

----------------------------------------------------------------------------
(* SpecStore: the table behind the query of lines 15-19.  Its "timestamp"  *)
(* column is timestamp-typed (the query orders by it), so a stored         *)
(* timestamp is an instant or NULL and a stored number is a number or NULL.*)

\* The JSON text of a stored instant: seconds, the fraction unless it is
\* zero, and the offset "+00:00".
IsoFormat(n) ==
    <<DigitChar(n \div 10)>>
      \o (IF n % 10 = 0 THEN <<>> ELSE <<".", DigitChar(n % 10)>>)
      \o <<"+", "0", "0", ":", "0", "0">>

\* A stored row as a row of response.data.
ToJson(r) ==
    [c \in Cols |-> IF r[c].k = "ts" THEN Str(IsoFormat(r[c].n)) ELSE r[c]]

\* .order("timestamp", desc=True): newest first, NULLs before every value
\* (the default of a descending order), rows with equal timestamps in any
\* order.
order_desc(t) ==
    LET key(i) == t[i]["timestamp"]
        ok(p) == \A a, b \in 1..Len(t) : a < b =>
                    /\ IsNA(key(p[b])) => IsNA(key(p[a]))
                    /\ (~IsNA(key(p[a])) /\ ~IsNA(key(p[b]))) =>
                           key(p[a]).n >= key(p[b]).n
    IN {[k \in 1..Len(t) |-> t[p[k]]] : p \in {q \in Perms(Len(t)) : ok(q)}}

\* .limit(n): the first n rows.
limit(t, n) == SubSeq(t, 1, IF Len(t) < n THEN Len(t) ELSE n)

\* Lines 15-19: select * order by timestamp desc limit 500, as JSON rows.
execute(t) ==
    {[i \in 1..Len(u) |-> ToJson(u[i])] : u \in {limit(o, Limit) : o \in order_desc(t)}}

\* Stored rows explored: valid rows at three instants (two of them at the
\* same instant), a row without latitude, a row without timestamp.
StoreRows ==
    {MkRow(Ts(0), Num(1), Num(2), Num(3), S(<<"C", "a", "r">>)),
     MkRow(Ts(5), Num(1), Num(2), Num(3), S(<<"C", "a", "r">>)),
     MkRow(Ts(5), Num(1), Num(2), Num(4), S(<<"b", "u", "s">>)),
     MkRow(Ts(10), Num(1), Num(2), Num(3), S(<<"C", "a", "r">>)),
     MkRow(Ts(10), Null, Num(2), Num(3), S(<<"c", "a", "r">>)),
     MkRow(Null, Num(1), Num(2), Num(3), S(<<"C", "a", "r">>))}

InitStore ==
    /\ pc = "start"
    /\ response = NoResponse
    /\ df = <<>>
    /\ df2 = <<>>
    /\ store \in SeqsUpTo(StoreRows, Limit + 2)
    /\ cache = EmptyCache
    /\ clicked = FALSE
    /\ hit = FALSE
    /\ cleared = FALSE
    /\ filtered_df = <<>>

\* load_data, lines 10-35, against the table.
LoadFromStore ==
    /\ pc = "start"
    /\ \E data \in execute(store) :
         /\ response' = Fetched(data)
         /\ \E out \in load_data(data) :
              /\ df' = out.df
              /\ pc' = IF out.raised THEN "raised" ELSE "returned"
    /\ UNCHANGED <<df2, store, cache, clicked, hit, cleared, filtered_df>>

NextStore == LoadFromStore

SpecStore == InitStore /\ [][NextStore]_vars

----------------------------------------------------------------------------
(* Shorthands of the properties.                                           *)

\* A fetched cell that to_numeric reads as a number.
NumericInput(v) ==
    \/ v.k = "num"
    \/ v.k = "str" /\ v.s # <<>> /\ \A i \in 1..Len(v.s) : IsDigit(v.s[i])

\* A fetched timestamp cell that parses.
ParsesInput(v) == v.k = "str" /\ IsoValid(v.s)

\* A fetched row with a parseable timestamp and numeric coordinates.
ValidRequired(r) ==
    /\ ParsesInput(r["timestamp"])
    /\ NumericInput(r["latitude"])
    /\ NumericInput(r["longitude"])

\* The fetched row an output row came from (by its index label).
Origin(e) == response.data[e.idx + 1]

Instant(e) == e.row["timestamp"].n

other_numeric_cols == numeric_cols \ {"latitude", "longitude"}

\* The lowercase of a fetched categorical value: of a string, of the text
\* of a number; a null has none and stays null.
LowercaseOf(v) ==
    CASE v.k = "str" -> Str(StrLower(v.s))
      [] v.k = "num" -> Str(DecStr(v.n))
      [] v.k = "null" -> Null

\* The rows of a frame, without their index labels.
Rows(f) == [i \in 1..Len(f) |-> f[i].row]

----------------------------------------------------------------------------
\* C1: every row load_data returns has a parsed timestamp and a numeric
\* latitude and longitude, and a fetched row whose timestamp does not parse
\* or whose latitude or longitude is absent or non-numeric is not in the
\* output, whatever its other fields are.
C1_RequiredFieldsPresent ==
    pc \in {"returned", "renormalized"} =>
        /\ \A i \in 1..Len(df) :
              /\ df[i].row["timestamp"].k = "ts"
              /\ df[i].row["latitude"].k = "num"
              /\ df[i].row["longitude"].k = "num"
        /\ \A j \in 1..Len(response.data) :
              ~ValidRequired(response.data[j]) =>
                  \A i \in 1..Len(df) : df[i].idx # j - 1

\* A row lacking only its latitude was fetched with a valid row, and only
\* the valid row was returned.
C1_Witness ==
    /\ pc = "returned"
    /\ Len(response.data) = 2
    /\ Len(df) = 1
    /\ \E j \in 1..2 :
          /\ response.data[j]["latitude"] = Null
          /\ ParsesInput(response.data[j]["timestamp"])
          /\ NumericInput(response.data[j]["longitude"])
          /\ df[1].idx # j - 1

\* C3: for fetched rows whose timestamps are all valid ISO-8601 strings, the
\* returned rows are in ascending order of their parsed instants.
C3_SortedByInstant ==
    (/\ pc = "returned"
     /\ \A j \in 1..Len(response.data) : ParsesInput(response.data[j]["timestamp"]))
    => \A i \in 1..(Len(df) - 1) : Instant(df[i]) <= Instant(df[i + 1])

\* C6: every categorical cell of the output is the lowercase of the fetched
\* value: the lowercased text of a string (or of a number's text), and a
\* missing value for a fetched null.
C6_LowercaseOfOriginal ==
    pc = "returned" =>
        \A i \in 1..Len(df) : \A c \in categorical_cols :
            df[i].row[c] = LowercaseOf(Origin(df[i])[c])

\* C7: normalising the output of load_data again yields the same frame.
C7_Idempotent == pc = "renormalized" => Rows(df2) = Rows(df)

\* C8: when rows were fetched the pipeline returns; every fetched row with
\* a valid timestamp, latitude and longitude is in the output exactly once,
\* and each of its other numeric fields that was absent or non-numeric is
\* the missing marker there.
C8_CoercionKeepsRow ==
    pc # "start" =>
        /\ response.data # <<>> => pc # "raised"
        /\ \A j \in 1..Len(response.data) :
              ValidRequired(response.data[j]) =>
                  /\ Cardinality({i \in 1..Len(df) : df[i].idx = j - 1}) = 1
                  /\ \A i \in 1..Len(df) : df[i].idx = j - 1 =>
                        \A c \in other_numeric_cols :
                            ~NumericInput(response.data[j][c]) => df[i].row[c] = NaN

\* A returned row whose fetched speed was a non-numeric string, and one
\* whose fetched speed was null.
C8_Witness ==
    /\ pc = "returned"
    /\ \E i \in 1..Len(df) :
          /\ Origin(df[i])["speed"].k = "str"
          /\ df[i].row["speed"] = NaN
    /\ \E i \in 1..Len(df) :
          /\ Origin(df[i])["speed"] = Null
          /\ df[i].row["speed"] = NaN

\* C9: two returned rows whose fetched timestamps are equal are in the
\* order in which they were fetched.
C9_StableOrder ==
    pc = "returned" =>
        \A a, b \in 1..Len(df) :
            (a < b /\ Origin(df[a])["timestamp"] = Origin(df[b])["timestamp"])
                => df[a].idx < df[b].idx

----------------------------------------------------------------------------
\* The bag of the rows of a frame.
RECURSIVE RowBag(_)
RowBag(f) == IF f = <<>> THEN EmptyBag
             ELSE RowBag(Tail(f)) (+) SetToBag({Head(f).row})

RECURSIVE SeqBag(_)
SeqBag(t) == IF t = <<>> THEN EmptyBag
             ELSE SeqBag(Tail(t)) (+) SetToBag({Head(t)})

\* A stored row with a timestamp and both coordinates.
StoredValid(r) ==
    /\ r["timestamp"].k = "ts"
    /\ r["latitude"].k = "num"
    /\ r["longitude"].k = "num"

\* The rows of a sequence of (stored, fetched or returned) rows at instant n.
CountAt(t, n) ==
    Cardinality({j \in 1..Len(t) : to_datetime(t[j]["timestamp"]) = Ts(n)})

Ascending(f) == \A i \in 1..(Len(f) - 1) : Instant(f[i]) <= Instant(f[i + 1])

\* The returned rows are (cleaned) rows of the table.
FromStore ==
    RowBag(df) \sqsubseteq SeqBag([j \in 1..Len(store) |-> CleanRow(ToJson(store[j]))])

\* No row of the table that was not fetched is newer than a returned row.
NoneOlderThanCap ==
    \A j \in 1..Len(store) :
        LET n == store[j]["timestamp"].n
        IN (/\ store[j]["timestamp"].k = "ts"
            /\ CountAt(response.data, n) < CountAt(store, n))
               => \A i \in 1..Len(df) : Instant(df[i]) >= n

\* C4 as stated: against a table holding more than Limit valid rows,
\* load_data returns exactly Limit rows, the most recent ones, in ascending
\* order of their instants, and no row older than the cap's last.
C4_AsStated ==
    (/\ pc = "returned"
     /\ Cardinality({j \in 1..Len(store) : StoredValid(store[j])}) > Limit)
    => /\ Len(df) = Limit
       /\ Ascending(df)
       /\ FromStore
       /\ NoneOlderThanCap

\* C4, amended: against a table of more than Limit rows, Limit rows are
\* fetched and load_data returns the valid ones among them (all Limit of them
\* when every fetched row is valid), each a row of the table, in ascending
\* order of their instants, and no row that was not fetched is newer than a
\* returned row.
C4_MostRecentAscending ==
    (pc = "returned" /\ Len(store) > Limit) =>
        /\ Len(response.data) = Limit
        /\ Len(df) = Cardinality({j \in 1..Limit : ValidRequired(response.data[j])})
        /\ Ascending(df)
        /\ FromStore
        /\ NoneOlderThanCap

\* A table of Limit + 1 valid rows stored oldest first, whose oldest row
\* was left out and whose newest row is returned last.
C4_Witness ==
    /\ pc = "returned"
    /\ \A j \in 1..Len(store) : StoredValid(store[j])
    /\ Len(store) = Limit + 1
    /\ \A j \in 1..(Len(store) - 1) :
          store[j]["timestamp"].n < store[j + 1]["timestamp"].n
    /\ Len(df) = Limit
    /\ Instant(df[1]) = store[2]["timestamp"].n
    /\ Instant(df[Len(df)]) = store[Len(store)]["timestamp"].n

----------------------------------------------------------------------------
(* SpecDash: the script, one run after another.  A run starts at the top   *)
(* (a page load, a widget interaction or a click on "Refresh Now"), calls  *)
(* load_data through st.cache_data, stops on an empty frame, handles the   *)
(* button and renders.  Time passes between and during runs.               *)

DashRows ==
    {MkRow(S(<<"0", "+", "0", "0", ":", "0", "0">>), Num(1), Num(2), Num(3),
           S(<<"C", "a", "r">>)),
     MkRow(S(<<"1", "+", "0", "0", ":", "0", "0">>), Num(1), Num(2), Num(4),
           S(<<"b", "u", "s">>)),
     MkRow(S(<<"1", "+", "0", "0", ":", "0", "0">>), Null, Num(2), Num(3),
           S(<<"c", "a", "r">>))}

DashResponses == SeqsUpTo(DashRows, MaxDashRows)

\* Whether the cache holds a live entry: st.cache_data(ttl=10), line 9.
Live(c) == c.has /\ c.age < TTL

InitDash ==
    /\ pc = "idle"
    /\ response = NoResponse
    /\ df = <<>>
    /\ df2 = <<>>
    /\ store = <<>>
    /\ cache = EmptyCache
    /\ clicked = FALSE
    /\ hit = FALSE
    /\ cleared = FALSE
    /\ filtered_df = <<>>

\* Streamlit reruns the script from line 1.  "Refresh Now" can be clicked
\* only when the previous run reached line 52 and drew it.
Rerun ==
    /\ pc \in {"idle", "done", "stopped", "crashed"}
    /\ \E click \in BOOLEAN :
         /\ click => pc = "done"
         /\ clicked' = click
    /\ pc' = "load"
    /\ response' = NoResponse
    /\ df' = <<>>
    /\ hit' = FALSE
    /\ cleared' = FALSE
    /\ filtered_df' = <<>>
    /\ UNCHANGED <<df2, store, cache>>

\* Lines 42-44 when the cache holds a live entry: load_data is not run.
LoadCached ==
    /\ pc = "load"
    /\ Live(cache)
    /\ df' = cache.val
    /\ hit' = TRUE
    /\ pc' = IF cache.val = <<>> THEN "stopped" ELSE "button"
    /\ UNCHANGED <<response, df2, store, cache, clicked, cleared, filtered_df>>

\* Lines 42-44 without a live entry, the fetch failing: .execute() raises,
\* nothing catches it, and the run ends with the exception.
LoadFetchFails ==
    /\ pc = "load"
    /\ ~Live(cache)
    /\ response' = Failed
    /\ pc' = "crashed"
    /\ UNCHANGED <<df, df2, store, cache, clicked, hit, cleared, filtered_df>>

\* Lines 42-44 without a live entry, the fetch answering: load_data runs;
\* what it returns is cached and checked for emptiness, what it raises ends
\* the run.
LoadFetched ==
    /\ pc = "load"
    /\ ~Live(cache)
    /\ \E data \in DashResponses :
         /\ response' = Fetched(data)
         /\ \E out \in load_data(data) :
              IF out.raised
              THEN /\ pc' = "crashed"
                   /\ UNCHANGED <<df, cache>>
              ELSE /\ df' = out.df
                   /\ cache' = [has |-> TRUE, val |-> out.df, age |-> 0]
                   /\ pc' = IF out.df = <<>> THEN "stopped" ELSE "button"
    /\ UNCHANGED <<df2, store, clicked, hit, cleared, filtered_df>>

\* Lines 52-54: the button is true in the run its click triggered.  The
\* cache is cleared; st.query_params.update changes the URL and the run goes
\* on to line 56 with the df of line 42.
Button ==
    /\ pc = "button"
    /\ IF clicked
       THEN /\ cache' = EmptyCache
            /\ cleared' = TRUE
       ELSE UNCHANGED <<cache, cleared>>
    /\ pc' = "render"
    /\ UNCHANGED <<response, df, df2, store, clicked, hit, filtered_df>>

\* df['vehicle_type'].unique(), line 48.
VehicleTypes(f) == {f[i].row["vehicle_type"] : i \in 1..Len(f)}

\* Lines 56-145: the rows of df whose vehicle type is selected, rendered.
Render ==
    /\ pc = "render"
    /\ \E selected \in SUBSET VehicleTypes(df) :
         LET isin(e) == e.row["vehicle_type"] \in selected
         IN filtered_df' = SelectSeq(df, isin)
    /\ pc' = "done"
    /\ UNCHANGED <<response, df, df2, store, cache, clicked, hit, cleared>>

\* A second passes; an entry that reaches the TTL has expired.
Tick ==
    /\ cache.has
    /\ cache.age < TTL
    /\ cache' = [cache EXCEPT !.age = @ + 1]
    /\ UNCHANGED <<pc, response, df, df2, store, clicked, hit, cleared, filtered_df>>

NextDash ==
    \/ Rerun
    \/ LoadCached
    \/ LoadFetchFails
    \/ LoadFetched
    \/ Button
    \/ Render
    \/ Tick

SpecDash == InitDash /\ [][NextDash]_vars

----------------------------------------------------------------------------
\* C2: when the fetch fails, the run gets an empty frame from load_data and
\* ends at the empty check of lines 43-44, not with the exception.
C2_FetchFailureReturnsEmpty ==
    response.st = "fail" => (pc = "stopped" /\ df = <<>>)

\* C5: data rendered after the cache was invalidated is data fetched after
\* the invalidation, never the entry the cache held before it.
C5_RenderAfterInvalidationIsFresh ==
    (pc = "done" /\ cleared) => ~hit

\* C10: when the store answers and no fetched row survives the filter (the
\* answer has no rows, or only rows that are dropped), the run ends at the
\* empty check with nothing rendered.
C10_EmptyHaltsWithoutError ==
    (/\ response.st = "ok"
     /\ \A j \in 1..Len(response.data) : ~ValidRequired(response.data[j]))
    => (pc = "stopped" /\ df = <<>> /\ filtered_df = <<>>)

=============================================================================
